---- MODULE Spec2Model ----
(***************************************************************************)
(* IQR outlier removal of 04_EDA/06_Outlier.ipynb (code cell 355d93cc).    *)
(*                                                                         *)
(* The cell loads a table, takes the 25th and 75th percentile of its 'age' *)
(* column (pandas Series.quantile: missing values skipped, linear          *)
(* interpolation between order statistics), derives IQR and the 1.5*IQR    *)
(* bounds, and keeps the rows whose age lies within the bounds.            *)
(*                                                                         *)
(* Numbers.  An age is an integer or the missing marker NaN.  Every float  *)
(* the cell computes from integer ages is a multiple of 1/8 (a quartile is *)
(* a multiple of 1/4, 1.5*IQR a multiple of 1/8), so a float is modelled   *)
(* exactly as [nan, n8] with n8 the number of eighths.  Infinite ages and  *)
(* magnitudes at which float64 rounds are outside the model.               *)
(***************************************************************************)
EXTENDS Integers, Sequences, FiniteSets, TLC

\* ---- bounds of the model ------------------------------------------------
MaxRows == 5        \* rows of an arbitrary table
MaxAge == 4         \* ages of an arbitrary table are 0..MaxAge or NaN
MaxCopies == 5      \* rows holding the constant in a degenerate column
MaxC == 1           \* the constant of a degenerate column is 0..MaxC

VARIABLES titanic, Q1, Q3, IQR, lower_bound, upper_bound,
          titanic_no_outliers, refiltered, pc

vars == <<titanic, Q1, Q3, IQR, lower_bound, upper_bound,
          titanic_no_outliers, refiltered, pc>>

\* ---- floats ---------------------------------------------------------------
NaN == [nan |-> TRUE, n8 |-> 0]

Num(k) == [nan |-> FALSE, n8 |-> 8 * k]

\* a - b ; NaN propagates
FSub(a, b) == IF a.nan \/ b.nan THEN NaN ELSE [nan |-> FALSE, n8 |-> a.n8 - b.n8]

\* a + b ; NaN propagates
FAdd(a, b) == IF a.nan \/ b.nan THEN NaN ELSE [nan |-> FALSE, n8 |-> a.n8 + b.n8]

\* 1.5 * a ; exact because every quartile difference is a multiple of 2/8
FMul15(a) == IF a.nan THEN NaN ELSE [nan |-> FALSE, n8 |-> (3 * a.n8) \div 2]

\* a >= b ; any comparison with NaN is False
FGe(a, b) == ~a.nan /\ ~b.nan /\ a.n8 >= b.n8

\* a <= b ; any comparison with NaN is False
FLe(a, b) == ~a.nan /\ ~b.nan /\ a.n8 <= b.n8

\* ---- titanic['age'] ---------------------------------------------------------
Column(table) == [i \in 1..Len(table) |-> table[i].age]

\* ---- Series.quantile --------------------------------------------------------
\* mutant: missing ages are filled with 0 instead of being skipped
DropNaFillZero(col) == [i \in 1..Len(col) |-> IF col[i].nan THEN Num(0) ELSE col[i]]

\* quantile skips missing values (skipna)
DropNa(col) == SelectSeq(col, LAMBDA x : ~x.nan)

RECURSIVE Insert(_, _)
Insert(x, s) ==
    IF s = <<>> THEN <<x>>
    ELSE IF x.n8 <= Head(s).n8 THEN <<x>> \o s
    ELSE <<Head(s)>> \o Insert(x, Tail(s))

RECURSIVE SortAsc(_)
\* the order statistics of the non-missing values
SortAsc(s) == IF s = <<>> THEN <<>> ELSE Insert(Head(s), SortAsc(Tail(s)))

\* mutant: 'higher' interpolation, the upper of the two order statistics
InterpolateHigher(s, q4) ==
    LET n   == Len(s)
        pos == (n - 1) * q4
        lo  == pos \div 4
        r   == pos % 4
        hi  == IF r = 0 THEN lo ELSE lo + 1
    IN  s[hi + 1]

\* linear interpolation at position (n-1)*q4/4 of the sorted values
Interpolate(s, q4) ==
    LET n   == Len(s)
        pos == (n - 1) * q4
        lo  == pos \div 4
        r   == pos % 4
        hi  == IF lo + 1 <= n - 1 THEN lo + 1 ELSE n - 1
    IN  [nan |-> FALSE,
         n8  |-> s[lo + 1].n8 + (r * (s[hi + 1].n8 - s[lo + 1].n8)) \div 4]

\* mutant: the quantile is read off the column without sorting it
QuantileUnsorted(col, q4) ==
    LET s == DropNa(col)
    IN  IF s = <<>> THEN NaN ELSE Interpolate(s, q4)

\* col.quantile(q4/4): NaN when no value is left after skipping the missing
Quantile(col, q4) ==
    LET s == SortAsc(DropNa(col))
    IN  IF s = <<>> THEN NaN ELSE Interpolate(s, q4)

\* ---- bounds -----------------------------------------------------------------
\* mutant: operands of the subtraction swapped
IQROfSwapped(q1, q3) == FSub(q1, q3)

\* IQR = Q3 - Q1
IQROf(q1, q3) == FSub(q3, q1)

\* lower_bound = Q1 - 1.5 * IQR
LowerBoundOf(q1, iqr) == FSub(q1, FMul15(iqr))

\* mutant: the multiplier is applied to Q3 instead of IQR
UpperBoundOfQ3(q3, iqr) == FAdd(q3, FMul15(q3))

\* upper_bound = Q3 + 1.5 * IQR
UpperBoundOf(q3, iqr) == FAdd(q3, FMul15(iqr))

\* ---- titanic[(age >= lower_bound) & (age <= upper_bound)] -----------------
\* mutant: strict comparisons
RowFilterStrict(table, lo, hi) ==
    SelectSeq(table, LAMBDA r : FGe(r.age, lo) /\ FLe(r.age, hi)
                                /\ r.age # lo /\ r.age # hi)

RECURSIVE SkipDelete(_, _, _)
\* mutant: rows deleted while iterating, the row after a deleted one is skipped
SkipDelete(table, lo, hi) ==
    IF table = <<>> THEN <<>>
    ELSE IF FGe(Head(table).age, lo) /\ FLe(Head(table).age, hi)
         THEN <<Head(table)>> \o SkipDelete(Tail(table), lo, hi)
         ELSE IF Tail(table) = <<>> THEN <<>>
              ELSE <<Head(Tail(table))>> \o SkipDelete(Tail(Tail(table)), lo, hi)

RowFilterSkipping(table, lo, hi) == SkipDelete(table, lo, hi)

RECURSIVE InsertRow(_, _)
InsertRow(x, s) ==
    IF s = <<>> THEN <<x>>
    ELSE IF x.age.n8 <= Head(s).age.n8 THEN <<x>> \o s
    ELSE <<Head(s)>> \o InsertRow(x, Tail(s))

RECURSIVE SortRows(_)
SortRows(s) == IF s = <<>> THEN <<>> ELSE InsertRow(Head(s), SortRows(Tail(s)))

\* mutant: the surviving rows come back sorted by age
RowFilterSorted(table, lo, hi) ==
    SortRows(SelectSeq(table, LAMBDA r : FGe(r.age, lo) /\ FLe(r.age, hi)))

\* boolean-mask selection: the rows whose mask is True, in table order
RowFilter(table, lo, hi) ==
    SelectSeq(table, LAMBDA r : FGe(r.age, lo) /\ FLe(r.age, hi))

\* the whole cell as a function of the table
OutlierFilter(table) ==
    LET q1  == Quantile(Column(table), 1)
        q3  == Quantile(Column(table), 3)
        iqr == IQROf(q1, q3)
    IN  RowFilter(table, LowerBoundOf(q1, iqr), UpperBoundOf(q3, iqr))

\* ---- input tables -----------------------------------------------------------
AgeVals == {NaN} \cup {Num(k) : k \in 0..MaxAge}

\* a table: the target column 'age' and one non-target column 'survived'
MkTable(ages, p) ==
    [i \in 1..Len(ages) |-> [age |-> ages[i], survived |-> (i + p) % 2]]

GeneralTables ==
    {MkTable(a, p) : a \in UNION {[1..n -> AgeVals] : n \in 0..MaxRows}, p \in 0..1}

\* n rows of the constant c and one row of c + 1000 at position k
DegenerateTables ==
    UNION {{MkTable([i \in 1..(n + 1) |-> IF i = k THEN Num(c + 1000) ELSE Num(c)], 0) :
                c \in 0..MaxC, k \in 1..(n + 1)} : n \in 1..MaxCopies}

ExampleAges == <<22, 38, 26, 35, 35, 2, 80>>

ExampleTable == MkTable([i \in 1..Len(ExampleAges) |-> Num(ExampleAges[i])], 0)

\* ---- the cell, statement by statement ---------------------------------------
\* after titanic = sns.load_dataset('titanic'); names not yet bound hold NaN / <<>>
Init ==
    /\ titanic \in GeneralTables \cup DegenerateTables \cup {ExampleTable}
    /\ Q1 = NaN
    /\ Q3 = NaN
    /\ IQR = NaN
    /\ lower_bound = NaN
    /\ upper_bound = NaN
    /\ titanic_no_outliers = <<>>
    /\ refiltered = <<>>
    /\ pc = "Q1"

ComputeQ1 ==
    /\ pc = "Q1"
    /\ Q1' = Quantile(Column(titanic), 1)
    /\ pc' = "Q3"
    /\ UNCHANGED <<titanic, Q3, IQR, lower_bound, upper_bound,
                   titanic_no_outliers, refiltered>>

ComputeQ3 ==
    /\ pc = "Q3"
    /\ Q3' = Quantile(Column(titanic), 3)
    /\ pc' = "IQR"
    /\ UNCHANGED <<titanic, Q1, IQR, lower_bound, upper_bound,
                   titanic_no_outliers, refiltered>>

ComputeIQR ==
    /\ pc = "IQR"
    /\ IQR' = IQROf(Q1, Q3)
    /\ pc' = "lower_bound"
    /\ UNCHANGED <<titanic, Q1, Q3, lower_bound, upper_bound,
                   titanic_no_outliers, refiltered>>

ComputeLowerBound ==
    /\ pc = "lower_bound"
    /\ lower_bound' = LowerBoundOf(Q1, IQR)
    /\ pc' = "upper_bound"
    /\ UNCHANGED <<titanic, Q1, Q3, IQR, upper_bound,
                   titanic_no_outliers, refiltered>>

ComputeUpperBound ==
    /\ pc = "upper_bound"
    /\ upper_bound' = UpperBoundOf(Q3, IQR)
    /\ pc' = "filter"
    /\ UNCHANGED <<titanic, Q1, Q3, IQR, lower_bound,
                   titanic_no_outliers, refiltered>>

\* mutant: the rows are dropped from titanic itself
RemoveOutliersInPlace ==
    /\ pc = "filter"
    /\ titanic' = RowFilter(titanic, lower_bound, upper_bound)
    /\ titanic_no_outliers' = titanic'
    /\ pc' = "done"
    /\ UNCHANGED <<Q1, Q3, IQR, lower_bound, upper_bound, refiltered>>

RemoveOutliers ==
    /\ pc = "filter"
    /\ titanic_no_outliers' = RowFilter(titanic, lower_bound, upper_bound)
    /\ pc' = "done"
    /\ UNCHANGED <<titanic, Q1, Q3, IQR, lower_bound, upper_bound, refiltered>>

Next ==
    \/ ComputeQ1
    \/ ComputeQ3
    \/ ComputeIQR
    \/ ComputeLowerBound
    \/ ComputeUpperBound
    \/ RemoveOutliers

Spec == Init /\ [][Next]_vars

\* ---- the cell applied to its own output -------------------------------------
\* the whole cell run again on titanic_no_outliers: quartiles and bounds recomputed
ReapplyWhole ==
    /\ pc = "done"
    /\ refiltered' = OutlierFilter(titanic_no_outliers)
    /\ pc' = "redone"
    /\ UNCHANGED <<titanic, Q1, Q3, IQR, lower_bound, upper_bound,
                   titanic_no_outliers>>

\* line 153 alone run again on titanic_no_outliers: the bounds already computed
ReapplyRowFilter ==
    /\ pc = "done"
    /\ refiltered' = RowFilter(titanic_no_outliers, lower_bound, upper_bound)
    /\ pc' = "rechecked"
    /\ UNCHANGED <<titanic, Q1, Q3, IQR, lower_bound, upper_bound,
                   titanic_no_outliers>>

NextTwice ==
    \/ ComputeQ1
    \/ ComputeQ3
    \/ ComputeIQR
    \/ ComputeLowerBound
    \/ ComputeUpperBound
    \/ RemoveOutliers
    \/ ReapplyWhole
    \/ ReapplyRowFilter

SpecTwice == Init /\ [][NextTwice]_vars

\* ---- properties -------------------------------------------------------------
HasObservation(table) == \E i \in 1..Len(table) : ~table[i].age.nan

RECURSIVE IsSubseq(_, _)
\* s is obtained from t by deleting rows
IsSubseq(s, t) ==
    IF s = <<>> THEN TRUE
    ELSE IF t = <<>> THEN FALSE
    ELSE IF Head(s) = Head(t) THEN IsSubseq(Tail(s), Tail(t))
    ELSE IsSubseq(s, Tail(t))

\* the rows of table whose age is present
PresentRows(table) == SelectSeq(table, LAMBDA r : ~r.age.nan)

\* table has n rows of one constant c and one row of c + 1000, nothing else
Degenerate(table, n) ==
    /\ Len(table) = n + 1
    /\ \A i \in 1..Len(table) : ~table[i].age.nan
    /\ \E k \in 1..Len(table) :
          \A j \in 1..Len(table) :
              j # k => table[k].age.n8 = table[j].age.n8 + 8 * 1000

\* the rows of a degenerate table that hold the constant
ConstantRows(table) ==
    SelectSeq(table, LAMBDA r : \E j \in 1..Len(table) :
                                   table[j].age.n8 = r.age.n8 + 8 * 1000)

\* C1: once the cell has run on a column with a non-missing value, the output
\* is exactly the input rows with lower_bound <= age <= upper_bound, both ends
\* inclusive, where lower_bound = Q1 - 1.5*IQR, upper_bound = Q3 + 1.5*IQR and
\* IQR = Q3 - Q1 are those of the unfiltered column.
C1_ExactInclusiveRange ==
    (pc = "done" /\ HasObservation(titanic)) =>
        /\ Q1 = Quantile(Column(titanic), 1)
        /\ Q3 = Quantile(Column(titanic), 3)
        /\ ~Q1.nan /\ ~Q3.nan /\ ~IQR.nan /\ ~lower_bound.nan /\ ~upper_bound.nan
        /\ IQR.n8 = Q3.n8 - Q1.n8
        /\ 2 * lower_bound.n8 = 2 * Q1.n8 - 3 * IQR.n8
        /\ 2 * upper_bound.n8 = 2 * Q3.n8 + 3 * IQR.n8
        /\ titanic_no_outliers =
             SelectSeq(titanic, LAMBDA r : /\ ~r.age.nan
                                           /\ lower_bound.n8 <= r.age.n8
                                           /\ r.age.n8 <= upper_bound.n8)

\* a row sitting exactly on a bound is kept while another row is removed
C1_Witness ==
    /\ pc = "done"
    /\ HasObservation(titanic)
    /\ \E i \in 1..Len(titanic_no_outliers) :
          \/ titanic_no_outliers[i].age = upper_bound
          \/ titanic_no_outliers[i].age = lower_bound
    /\ \E i \in 1..Len(titanic) :
          ~titanic[i].age.nan /\ titanic[i].age.n8 > upper_bound.n8

\* C2: for a column with a non-missing value the computed values satisfy
\* lower_bound <= Q1 <= Q3 <= upper_bound, and IQR >= 0.
C2_BoundOrdering ==
    (pc \in {"filter", "done", "redone", "rechecked"} /\ HasObservation(titanic)) =>
        /\ ~Q1.nan /\ ~Q3.nan /\ ~IQR.nan /\ ~lower_bound.nan /\ ~upper_bound.nan
        /\ lower_bound.n8 <= Q1.n8
        /\ Q1.n8 <= Q3.n8
        /\ Q3.n8 <= upper_bound.n8
        /\ IQR.n8 >= 0

\* the bounds have been derived from quartiles that differ
C2_Witness ==
    /\ pc = "filter"
    /\ HasObservation(titanic)
    /\ Q1.n8 < Q3.n8
    /\ lower_bound.n8 < Q1.n8

\* C3 as stated: the whole cell run again on its own output (quartiles and
\* bounds recomputed) returns that output unchanged.
C3_IdempotentRecomputed ==
    pc = "redone" => refiltered = titanic_no_outliers

\* C3 amended: filtering the output again with the bounds computed from the
\* original table returns it unchanged; the whole cell run again on the output
\* returns a row-order-preserving subsequence of it.
C3_IdempotentSameBounds ==
    /\ pc = "rechecked" => refiltered = titanic_no_outliers
    /\ pc = "redone" => IsSubseq(refiltered, titanic_no_outliers)

\* the first run removed rows, the same bounds remove none, recomputed bounds would
C3_Witness ==
    /\ pc = "rechecked"
    /\ Len(titanic_no_outliers) < Len(titanic)
    /\ refiltered = titanic_no_outliers
    /\ OutlierFilter(titanic_no_outliers) # titanic_no_outliers

\* C4 as stated: on ages [22, 38, 26, 35, 35, 2, 80] the row with age 80 is
\* dropped and the row with age 2 is retained.
C4_Drops80Keeps2 ==
    (pc = "done" /\ titanic = ExampleTable) =>
        /\ \A i \in 1..Len(titanic_no_outliers) : titanic_no_outliers[i].age # Num(80)
        /\ \E i \in 1..Len(titanic_no_outliers) : titanic_no_outliers[i].age = Num(2)

\* C4 amended: on ages [22, 38, 26, 35, 35, 2, 80] the bounds are 5.25 and
\* 55.25, and the rows with ages 80 and 2 are both dropped; the other five
\* rows are retained in order.
C4_Drops80And2 ==
    (pc = "done" /\ titanic = ExampleTable) =>
        /\ Q1 = [nan |-> FALSE, n8 |-> 192]
        /\ Q3 = [nan |-> FALSE, n8 |-> 292]
        /\ lower_bound = [nan |-> FALSE, n8 |-> 42]
        /\ upper_bound = [nan |-> FALSE, n8 |-> 442]
        /\ titanic_no_outliers = SubSeq(ExampleTable, 1, 5)

\* the cell has run on the example table
C4_Witness ==
    /\ pc = "done"
    /\ titanic = ExampleTable
    /\ Len(titanic_no_outliers) = 5

\* C5 as stated: for every n >= 1, a column of n rows c and one row c + 1000
\* keeps the n rows and drops the row c + 1000.
C5_DegenerateAnyN ==
    \A n \in 1..(MaxCopies + 1) :
        (pc = "done" /\ Degenerate(titanic, n)) =>
            titanic_no_outliers = ConstantRows(titanic)

\* C5 amended: for every n >= 3, a column of n rows c and one row c + 1000
\* keeps the n rows and drops the row c + 1000.
C5_DegenerateFrom3 ==
    \A n \in 3..(MaxCopies + 1) :
        (pc = "done" /\ Degenerate(titanic, n)) =>
            /\ titanic_no_outliers = ConstantRows(titanic)
            /\ Len(titanic_no_outliers) = n

\* a degenerate column of three constants with IQR > 0 has lost its outlier
C5_Witness ==
    /\ pc = "done"
    /\ Degenerate(titanic, 3)
    /\ IQR.n8 > 0
    /\ Len(titanic_no_outliers) = 3

\* C6: missing ages take no part in Q1, Q3 and the bounds (they equal those of
\* the table without its missing-age rows), and no output row has a missing age.
C6_MissingExcluded ==
    pc = "done" =>
        LET clean == Column(PresentRows(titanic))
            q1    == Quantile(clean, 1)
            q3    == Quantile(clean, 3)
        IN  /\ Q1 = q1
            /\ Q3 = q3
            /\ lower_bound = LowerBoundOf(q1, IQROf(q1, q3))
            /\ upper_bound = UpperBoundOf(q3, IQROf(q1, q3))
            /\ \A i \in 1..Len(titanic_no_outliers) : ~titanic_no_outliers[i].age.nan

\* the cell has run on a column holding both missing and present ages
C6_Witness ==
    /\ pc = "done"
    /\ HasObservation(titanic)
    /\ \E i \in 1..Len(titanic) : titanic[i].age.nan
    /\ titanic_no_outliers = PresentRows(titanic)

\* C7: the output is a row-order-preserving subsequence of the input: no more
\* rows than the input, each row equal in every field to the input row it came
\* from, surviving rows in their input order.
C7_OrderedSubsequence ==
    pc = "done" =>
        /\ Len(titanic_no_outliers) <= Len(titanic)
        /\ IsSubseq(titanic_no_outliers, titanic)

\* rows before and after a removed row survive, with ages out of sorted order
C7_Witness ==
    /\ pc = "done"
    /\ Len(titanic_no_outliers) < Len(titanic)
    /\ \E i \in 1..(Len(titanic_no_outliers) - 1) :
          titanic_no_outliers[i].age.n8 > titanic_no_outliers[i + 1].age.n8

\* C8: with no non-missing age the operation fails before any quartile or
\* bound is computed; no NaN bound exists and no filtered table is returned.
C8_EmptyColumnFailsFast ==
    ~HasObservation(titanic) =>
        /\ pc = "Q1"
        /\ ~(pc # "Q1" /\ Q1.nan)

\* C9: no step of the cell changes the input table.
C9_InputNotMutated == [][titanic' = titanic]_vars

\* the filter has produced a shorter table and the input still has all its rows
C9_Witness ==
    /\ pc = "done"
    /\ Len(titanic_no_outliers) + 2 <= Len(titanic)

\* C10: for a column with a non-missing value the output is never empty.
C10_NeverRemovesAll ==
    (pc = "done" /\ HasObservation(titanic)) => titanic_no_outliers # <<>>

\* IQR is zero and the rows at the collapsed bounds are the only survivors
C10_Witness ==
    /\ pc = "done"
    /\ HasObservation(titanic)
    /\ IQR.n8 = 0
    /\ lower_bound = upper_bound
    /\ Len(titanic_no_outliers) < Len(PresentRows(titanic))

====
